---- MODULE Spec2Model ----
(***************************************************************************)
(* Model of src/option_pricing_main.py: class OptionPricing, its           *)
(* constructor, the Monte Carlo pricer (mc_call_prc, _mc_option_payoffs,   *)
(* _mc_simulation, geometric_path) and the Black-Scholes pricer            *)
(* (black_sholes_price).                                                   *)
(*                                                                         *)
(* Numbers.  A float is a pair <<n, d>>: the rational n/d in lowest terms  *)
(* when d > 0, and an IEEE special value when d = 0 (<<0,0>> is NaN,       *)
(* <<1,0>> is +inf, <<-1,0>> is -inf).  Sums, products, quotients and      *)
(* maxima are exact; the transcendental functions (sqrt, exp, log, the     *)
(* normal cdf) are rounded onto a grid, as a float rounds them:            *)
(*   sqrt  rounds down to a multiple of 1/Scale,                           *)
(*   exp   rounds down to a power of two (exp x = 2^(x/ln 2)),             *)
(*   log   is the inverse of that exp (floor(log2) * ln 2),                *)
(*   cdf   is the piecewise-linear clamp(1/2 + x/4, 0, 1), rounded down    *)
(*         to a multiple of 1/Scale.                                       *)
(***************************************************************************)
EXTENDS Integers, Sequences, FiniteSets, TLC

\* ------------------------------------------------------------------ bounds
\* Fraction bits sqrt and the normal cdf keep: they round down to a
\* multiple of 1/Scale, Scale = 2^FracBits.
FracBits == 4
\* Largest number of time steps per path (self.steps is 500 in the source).
MaxSteps == 2
\* Largest number of trials per run (self.sims is 100_000 in the source).
MaxSims == 2
\* Period of the modelled random generator.
RngPeriod == 4

\* ------------------------------------------------------- program constants
\* Annualisation factor of _stock_info.
TradingDays == 252
\* Days per year of the time to maturity.
DaysPerYear == 365

\* ------------------------------------------------------------------ floats
NaN == <<0, 0>>
PosInf == <<1, 0>>
NegInf == <<-1, 0>>

RECURSIVE Pow2(_)
Pow2(k) == IF k = 0 THEN 1 ELSE 2 * Pow2(k - 1)

Scale == Pow2(FracBits)

Abs(n) == IF n < 0 THEN -n ELSE n

Sign(n) == IF n < 0 THEN -1 ELSE IF n > 0 THEN 1 ELSE 0

RECURSIVE Gcd(_, _)
Gcd(a, b) == IF b = 0 THEN a ELSE Gcd(b, a % b)

\* The rational n/d (d # 0) in lowest terms with a positive denominator.
Rat(n, d) ==
    LET g == Gcd(Abs(n), Abs(d))
        s == IF d < 0 THEN -1 ELSE 1
    IN  <<(s * n) \div g, (s * d) \div g>>

F(n) == <<n, 1>>

IsNaN(x) == x = NaN
IsInf(x) == x[2] = 0 /\ x[1] # 0
IsFinite(x) == x[2] > 0

\* Sign of a float that is not NaN.
FSign(x) == Sign(x[1])

FNeg(x) == <<-x[1], x[2]>>

Lcm(a, b) == (a \div Gcd(a, b)) * b

FAdd(x, y) ==
    IF IsNaN(x) \/ IsNaN(y) THEN NaN
    ELSE IF IsInf(x) /\ IsInf(y) THEN (IF x = y THEN x ELSE NaN)
    ELSE IF IsInf(x) THEN x
    ELSE IF IsInf(y) THEN y
    ELSE LET l == Lcm(x[2], y[2])
         IN  Rat(x[1] * (l \div x[2]) + y[1] * (l \div y[2]), l)

FSub(x, y) == FAdd(x, FNeg(y))

FMul(x, y) ==
    IF IsNaN(x) \/ IsNaN(y) THEN NaN
    ELSE IF IsInf(x) \/ IsInf(y)
         THEN (IF FSign(x) * FSign(y) = 0 THEN NaN ELSE <<FSign(x) * FSign(y), 0>>)
    ELSE LET a == Rat(x[1], y[2])
             b == Rat(y[1], x[2])
         IN  <<a[1] * b[1], a[2] * b[2]>>

\* numpy float division: x/0 is +-inf, 0/0 is NaN, no exception.
FDiv(x, y) ==
    IF IsNaN(x) \/ IsNaN(y) THEN NaN
    ELSE IF IsInf(x) /\ IsInf(y) THEN NaN
    ELSE IF IsInf(x) THEN <<FSign(x) * (IF FSign(y) < 0 THEN -1 ELSE 1), 0>>
    ELSE IF IsInf(y) THEN F(0)
    ELSE IF y[1] = 0 THEN (IF x[1] = 0 THEN NaN ELSE <<FSign(x), 0>>)
    ELSE FMul(x, Rat(y[2], y[1]))

\* x < y on floats; FALSE when either is NaN.
FLess(x, y) ==
    IF IsNaN(x) \/ IsNaN(y) THEN FALSE
    ELSE IF IsInf(x) \/ IsInf(y)
         THEN (IF IsInf(x) /\ IsInf(y) THEN x[1] < y[1]
               ELSE IF IsInf(x) THEN x[1] < 0 ELSE y[1] > 0)
    ELSE LET l == Lcm(x[2], y[2])
         IN  x[1] * (l \div x[2]) < y[1] * (l \div y[2])

\* np.maximum: the larger of the two, NaN if either is NaN.
FMax(x, y) ==
    IF IsNaN(x) \/ IsNaN(y) THEN NaN
    ELSE IF FLess(x, y) THEN y ELSE x

\* floor of a finite float.
FFloor(x) == x[1] \div x[2]

RECURSIVE ISqrt(_)
\* floor(sqrt(m)) for m >= 0.
ISqrt(m) ==
    IF m < 2 THEN m
    ELSE LET s == 2 * ISqrt(m \div 4)
         IN  IF (s + 1) * (s + 1) <= m THEN s + 1 ELSE s

\* np.sqrt: NaN below zero, else sqrt rounded down to a multiple of 1/Scale.
FSqrt(x) ==
    IF IsNaN(x) THEN NaN
    ELSE IF IsInf(x) THEN (IF x[1] > 0 THEN PosInf ELSE NaN)
    ELSE IF x[1] < 0 THEN NaN
    ELSE Rat(ISqrt(FFloor(FMul(x, F(Scale * Scale)))), Scale)

\* np.exp: exp x = 2^(x / ln 2), rounded down to a power of two
\* (1/ln 2 is taken as 13/9).  Strictly positive for every finite x.
FExp(x) ==
    IF IsNaN(x) THEN NaN
    ELSE IF IsInf(x) THEN (IF x[1] > 0 THEN PosInf ELSE F(0))
    ELSE LET k == FFloor(FMul(x, Rat(13, 9)))
         IN  IF k >= 0 THEN <<Pow2(k), 1>> ELSE <<1, Pow2(-k)>>

RECURSIVE Log2Floor(_, _)
\* floor(log2(n/d)) for n, d > 0.
Log2Floor(n, d) ==
    IF n >= d THEN (IF n < 2 * d THEN 0 ELSE 1 + Log2Floor(n, 2 * d))
    ELSE Log2Floor(2 * n, d) - 1

\* np.log: NaN below zero, -inf at zero, else floor(log2 x) * ln 2.
FLog(x) ==
    IF IsNaN(x) THEN NaN
    ELSE IF IsInf(x) THEN (IF x[1] > 0 THEN PosInf ELSE NaN)
    ELSE IF x[1] < 0 THEN NaN
    ELSE IF x[1] = 0 THEN NegInf
    ELSE Rat(Log2Floor(x[1], x[2]) * 9, 13)

\* scipy.stats.norm.cdf: clamp(1/2 + x/4, 0, 1), rounded down to a multiple
\* of 1/Scale.
NormCdf(x) ==
    IF IsNaN(x) THEN NaN
    ELSE IF IsInf(x) THEN (IF x[1] > 0 THEN F(1) ELSE F(0))
    ELSE IF ~FLess(x, F(2)) THEN F(1)
    ELSE IF ~FLess(F(-2), x) THEN F(0)
    ELSE LET y == FAdd(Rat(1, 2), FDiv(x, F(4)))
         IN  Rat(FFloor(FMul(y, F(Scale))), Scale)

\* -------------------------------------------------------------- helpers
RECURSIVE FSum(_)
\* Sum of a sequence of floats, left to right.
FSum(xs) == IF xs = <<>> THEN F(0) ELSE FAdd(FSum(SubSeq(xs, 1, Len(xs) - 1)), xs[Len(xs)])

\* np.mean of a non-empty array.
Mean(xs) == FDiv(FSum(xs), F(Len(xs)))

\* The format spec :.2f : the value rounded to hundredths, half to even;
\* NaN and the infinities print as themselves.
Fmt2(x) ==
    IF ~IsFinite(x) THEN x
    ELSE LET q == FFloor(FMul(x, F(100)))
             r == FSub(FMul(x, F(100)), F(q))
             up == FLess(Rat(1, 2), r) \/ (r = Rat(1, 2) /\ q % 2 = 1)
         IN  Rat(IF up THEN q + 1 ELSE q, 100)

\* df.pct_change(): the day-over-day simple returns (the leading NaN that
\* pandas puts first is skipped by std, and is left out here).
pct_change(df) ==
    [i \in 1..(Len(df) - 1) |-> FDiv(FSub(F(df[i + 1]), F(df[i])), F(df[i]))]

\* Series.std(): the sample standard deviation (ddof = 1) of the values;
\* NaN when there are fewer than two of them.
std(rs) ==
    IF Len(rs) < 2 THEN NaN
    ELSE LET m == Mean(rs)
             sq == [i \in 1..Len(rs) |-> FMul(FSub(rs[i], m), FSub(rs[i], m))]
         IN  FSqrt(FDiv(FSum(sq), F(Len(rs) - 1)))

\* _stock_info: <<error, spot, sigma>>.  df.iloc[-1] raises IndexError on an
\* empty series; nothing else is checked.
stock_info(df) ==
    LET sigma == FMul(std(pct_change(df)), FSqrt(F(TradingDays)))
    IN  IF Len(df) = 0 THEN <<"IndexError", NaN, NaN>>
        ELSE <<"", F(df[Len(df)]), sigma>>

\* The random generator: its state is a position in a cycle of RngPeriod
\* states; randn returns the draw of the current state and advances it.
randn(state) == F((state % 3) - 1)

rng_next(state) == (state + 1) % RngPeriod

\* Line 87, the exponent: (rf - 0.5 * sigma**2) * t + sigma * sqrt(t) * z.
growth_exponent(rf, sigma, t, z) ==
    FAdd(FMul(FSub(rf, FMul(Rat(1, 2), FMul(sigma, sigma))), t),
         FMul(FMul(sigma, FSqrt(t)), z))

\* The factor of line 87 with exp x replaced by its first-order value 1 + x.
growth_factor_first_order(rf, sigma, t, z) ==
    FAdd(F(1), growth_exponent(rf, sigma, t, z))

\* Line 87, the factor the price is multiplied by: np.exp of the exponent.
growth_factor(rf, sigma, t, z) == FExp(growth_exponent(rf, sigma, t, z))

\* The payoffs of lines 104-110 without np.maximum.
payoffs_not_floored(opt_type, final, strike) ==
    IF opt_type = "Call"
    THEN [i \in 1..Len(final) |-> FSub(final[i], F(strike))]
    ELSE [i \in 1..Len(final) |-> FSub(F(strike), final[i])]

\* Lines 104-110: the array of payoffs of _mc_option_payoffs for a
\* recognised option type.
payoffs(opt_type, final, strike) ==
    IF opt_type = "Call"
    THEN [i \in 1..Len(final) |-> FMax(FSub(final[i], F(strike)), F(0))]
    ELSE [i \in 1..Len(final) |-> FMax(FSub(F(strike), final[i]), F(0))]

\* Line 115: the discounted average payoff.
discount(avg_payoff, rf, capt) == FMul(avg_payoff, FExp(FMul(FMul(rf, F(-1)), capt)))

\* Lines 120-122.
bs_d1(o) ==
    FDiv(FAdd(FLog(FDiv(o.spot, F(o.strike))),
              FMul(FAdd(o.rf, FDiv(FMul(o.sigma, o.sigma), F(2))), o.capt)),
         FMul(o.sigma, FSqrt(o.capt)))

bs_d2(o) == FSub(bs_d1(o), FMul(o.sigma, FSqrt(o.capt)))

\* Lines 123-128: the Black-Scholes price of a Call or a Put.
bs_price(o) ==
    LET disc == FExp(FMul(FMul(F(-1), o.rf), o.capt))
    IN  IF o.opt_type = "Call"
        THEN FSub(FMul(o.spot, NormCdf(bs_d1(o))),
                  FMul(FMul(F(o.strike), disc), NormCdf(bs_d2(o))))
        ELSE FSub(FMul(FMul(F(o.strike), disc), NormCdf(FNeg(bs_d2(o)))),
                  FMul(o.spot, NormCdf(FNeg(bs_d1(o)))))

\* --------------------------------------------------------------- inputs
OptTypes == {"Call", "Put", "Straddle"}
Strikes == {0, 8}
\* (expiry - today).days
ExpiryDays == {-DaysPerYear, 0, DaysPerYear}
\* Last close of ^IRX, in percent.
IrxCloses == {0, 5}
\* One year of closes of the underlying, as the data source returns it.
Histories == {<<>>, <<10>>, <<10, 10, 10>>, <<10, 11, 10>>}

\* ---------------------------------------------------------------- state
VARIABLES
    input,        \* constructor arguments and market data
    self,         \* the OptionPricing instance's attributes
    pc,           \* "new", "failed", "idle", "sim" (in _mc_simulation), "path" (in geometric_path)
    ctor_err,     \* the exception __init__ raised, "" if none
    rng,          \* state of the random generator
    interval,     \* _mc_simulation's local
    final_prices, \* _mc_simulation's local
    price_path,   \* geometric_path's local
    s0,           \* geometric_path's parameter (assigned in its loop)
    run,          \* record of the latest Monte Carlo run: the generator state it
                  \* began in, the states it drew from, and per trial the
                  \* arguments, draws and path of its geometric_path call
    mc,           \* outcome of the last mc_call_prc
    bs,           \* outcome of the last black_sholes_price
    runs,         \* every completed Monte Carlo run (repeat: a run from the same
                  \* generator state had completed before)
    bs_results    \* every outcome of black_sholes_price so far

vars == <<input, self, pc, ctor_err, rng, interval, final_prices, price_path, s0,
          run, mc, bs, runs, bs_results>>

NoObject ==
    [opt_type |-> "", strike |-> 0, steps |-> 0, sims |-> 0,
     capt |-> NaN, rf |-> NaN, spot |-> NaN, sigma |-> NaN]

NoRun == [seed |-> 0, draws |-> <<>>, trials |-> <<>>]

\* status: "none", "printed" (the price was printed) or "raised" (err was
\* raised); returned: the type of what _mc_option_payoffs returned; draws
\* and paths: the random draws and the calls of geometric_path made.
NoOutcome == [status |-> "none", err |-> "", out |-> NaN, returned |-> "",
              draws |-> 0, paths |-> 0, payoffs |-> <<>>, avg |-> NaN]

\* price: the type of the local price at line 132; evaluated: whether d1
\* and d2 had been evaluated when the method ended; mc_done: whether a
\* Monte Carlo run had completed before.
NoBs == [status |-> "none", err |-> "", out |-> NaN, price |-> "",
         evaluated |-> FALSE, mc_done |-> FALSE]

Init ==
    /\ input \in [opt_type : OptTypes, strike : Strikes, days : ExpiryDays,
                  irx : IrxCloses, df : Histories,
                  steps : 1..MaxSteps, sims : 1..MaxSims]
    /\ self = NoObject
    /\ pc = "new"
    /\ ctor_err = ""
    /\ rng = 0   \* the later states of the cycle are reached as runs draw
    /\ interval = NaN
    /\ final_prices = <<>>
    /\ price_path = <<>>
    /\ s0 = NaN
    /\ run = NoRun
    /\ mc = NoOutcome
    /\ bs = NoBs
    /\ runs = {}
    /\ bs_results = {}

\* ------------------------------------------------------------- actions
\* __init__ (lines 43-51).
OptionPricing ==
    /\ pc = "new"
    /\ LET info == stock_info(input.df)
       IN  IF info[1] # ""
           THEN /\ ctor_err' = info[1]
                /\ pc' = "failed"
                /\ self' = self
           ELSE /\ ctor_err' = ""
                /\ pc' = "idle"
                /\ self' = [opt_type |-> input.opt_type,
                            strike |-> input.strike,
                            steps |-> input.steps,
                            sims |-> input.sims,
                            capt |-> FDiv(F(input.days), F(DaysPerYear)),
                            rf |-> FDiv(F(input.irx), F(100)),
                            spot |-> info[2],
                            sigma |-> info[3]]
    /\ UNCHANGED <<input, rng, interval, final_prices, price_path, s0, run, mc, bs,
                   runs, bs_results>>

\* mc_call_prc with final_prices kept from the previous run (a list that
\* outlives the call and is never cleared).
mc_call_prc_keeps_prices ==
    /\ pc = "idle"
    /\ pc' = "sim"
    /\ interval' = FDiv(self.capt, F(self.steps))
    /\ run' = [seed |-> rng, draws |-> <<>>, trials |-> <<>>]
    /\ UNCHANGED <<input, self, ctor_err, rng, final_prices, price_path, s0, mc, bs,
                   runs, bs_results>>

\* mc_call_prc -> _mc_option_payoffs -> _mc_simulation, up to its loop
\* (lines 114, 103, 94-95).
mc_call_prc ==
    /\ pc = "idle"
    /\ pc' = "sim"
    /\ interval' = FDiv(self.capt, F(self.steps))
    /\ final_prices' = <<>>
    /\ run' = [seed |-> rng, draws |-> <<>>, trials |-> <<>>]
    /\ UNCHANGED <<input, self, ctor_err, rng, price_path, s0, mc, bs, runs, bs_results>>

\* mc_simulation with each trial after the first starting from the price
\* the previous trial ended at.
mc_simulation_carries_price ==
    /\ pc = "sim"
    /\ Len(final_prices) < self.sims
    /\ pc' = "path"
    /\ LET start == IF final_prices = <<>> THEN self.spot
                    ELSE final_prices[Len(final_prices)]
       IN  /\ s0' = start
           /\ price_path' = <<start>>
           /\ run' = [run EXCEPT !.trials =
                         Append(@, [start |-> start, t |-> interval, steps |-> self.steps,
                                    draws |-> <<>>, path |-> <<start>>])]
    /\ UNCHANGED <<input, self, ctor_err, rng, interval, final_prices, mc, bs, runs,
                   bs_results>>

\* One iteration of _mc_simulation's loop begins: the call of
\* geometric_path(self.rf, self.spot, self.sigma, interval, self.steps)
\* and its line 85.
mc_simulation ==
    /\ pc = "sim"
    /\ Len(final_prices) < self.sims
    /\ pc' = "path"
    /\ s0' = self.spot
    /\ price_path' = <<self.spot>>
    /\ run' = [run EXCEPT !.trials =
                  Append(@, [start |-> self.spot, t |-> interval, steps |-> self.steps,
                             draws |-> <<>>, path |-> <<self.spot>>])]
    /\ UNCHANGED <<input, self, ctor_err, rng, interval, final_prices, mc, bs, runs,
                   bs_results>>

\* geometric_path without line 89: every step grows the initial price.
geometric_path_no_advance ==
    /\ pc = "path"
    /\ Len(price_path) - 1 < self.steps
    /\ LET s_t == FMul(s0, growth_factor(self.rf, self.sigma, interval, randn(rng)))
           n == Len(run.trials)
       IN  /\ price_path' = Append(price_path, s_t)
           /\ run' = [run EXCEPT !.draws = Append(@, rng),
                                 !.trials[n].draws = Append(@, rng),
                                 !.trials[n].path = Append(@, s_t)]
    /\ rng' = rng_next(rng)
    /\ UNCHANGED <<input, self, pc, ctor_err, interval, final_prices, s0, mc, bs, runs,
                   bs_results>>

\* geometric_path returns with the instance's spot price set to the
\* terminal price.
mc_simulation_append_sets_spot ==
    /\ pc = "path"
    /\ Len(price_path) - 1 = self.steps
    /\ pc' = "sim"
    /\ final_prices' = Append(final_prices, price_path[Len(price_path)])
    /\ self' = [self EXCEPT !.spot = price_path[Len(price_path)]]
    /\ UNCHANGED <<input, ctor_err, rng, interval, price_path, s0, run, mc, bs,
                   runs, bs_results>>

\* One iteration of geometric_path's loop (lines 86-89).
geometric_path ==
    /\ pc = "path"
    /\ Len(price_path) - 1 < self.steps
    /\ LET s_t == FMul(s0, growth_factor(self.rf, self.sigma, interval, randn(rng)))
           n == Len(run.trials)
       IN  /\ price_path' = Append(price_path, s_t)
           /\ s0' = s_t
           /\ run' = [run EXCEPT !.draws = Append(@, rng),
                                 !.trials[n].draws = Append(@, rng),
                                 !.trials[n].path = Append(@, s_t)]
    /\ rng' = rng_next(rng)
    /\ UNCHANGED <<input, self, pc, ctor_err, interval, final_prices, mc, bs, runs,
                   bs_results>>

\* geometric_path returns and _mc_simulation keeps the last price
\* (lines 90, 98).
mc_simulation_append ==
    /\ pc = "path"
    /\ Len(price_path) - 1 = self.steps
    /\ pc' = "sim"
    /\ final_prices' = Append(final_prices, price_path[Len(price_path)])
    /\ UNCHANGED <<input, self, ctor_err, rng, interval, price_path, s0, run, mc, bs,
                   runs, bs_results>>

\* The outcome of lines 99, 104-116 once the loop has ended.
mc_outcome ==
    IF self.opt_type \in {"Call", "Put"}
    THEN LET p == payoffs(self.opt_type, final_prices, self.strike)
             price == discount(Mean(p), self.rf, self.capt)
         IN  [status |-> "printed", err |-> "", out |-> Fmt2(price),
              returned |-> "float",
              draws |-> Len(run.draws), paths |-> Len(run.trials),
              payoffs |-> p, avg |-> Mean(p)]
    ELSE \* line 110 returns a str; line 115 multiplies it by a float
         [status |-> "raised", err |-> "TypeError", out |-> NaN,
          returned |-> "str",
          draws |-> Len(run.draws), paths |-> Len(run.trials),
          payoffs |-> <<>>, avg |-> NaN]

\* _mc_simulation returns, _mc_option_payoffs and mc_call_prc finish
\* (lines 99, 104-116).
mc_option_payoffs ==
    /\ pc = "sim"
    /\ Len(final_prices) = self.sims
    /\ pc' = "idle"
    /\ mc' = mc_outcome
    /\ runs' = runs \cup {[seed |-> run.seed, draws |-> run.draws,
                           status |-> mc_outcome.status, out |-> mc_outcome.out,
                           repeat |-> \E r \in runs : r.seed = run.seed]}
    /\ UNCHANGED <<input, self, ctor_err, rng, interval, final_prices, price_path, s0,
                   run, bs, bs_results>>

\* The outcome of black_sholes_price (lines 120-132).
bs_outcome ==
    IF self.opt_type \in {"Call", "Put"}
    THEN [status |-> "printed", err |-> "", out |-> Fmt2(bs_price(self)),
          price |-> "float", evaluated |-> TRUE, mc_done |-> mc.status # "none"]
    ELSE \* line 130 assigns a str; line 132 calls .item() on it
         [status |-> "raised", err |-> "AttributeError", out |-> NaN,
          price |-> "str", evaluated |-> TRUE, mc_done |-> mc.status # "none"]

black_sholes_price ==
    /\ pc = "idle"
    /\ bs' = bs_outcome
    /\ bs_results' = bs_results \cup {bs_outcome}
    /\ UNCHANGED <<input, self, pc, ctor_err, rng, interval, final_prices, price_path,
                   s0, run, mc, runs>>

Next ==
    \/ OptionPricing
    \/ mc_call_prc
    \/ mc_simulation
    \/ geometric_path
    \/ mc_simulation_append
    \/ mc_option_payoffs
    \/ black_sholes_price

Spec == Init /\ [][Next]_vars

\* ------------------------------------------------------------ predicates
Constructed == pc \in {"idle", "sim", "path"}

ValidKind == self.opt_type \in {"Call", "Put"}

\* x > 0 and x >= 0 on floats; both FALSE for NaN.
FPositive(x) == FLess(F(0), x)
FNonNegative(x) == ~IsNaN(x) /\ ~FLess(x, F(0))

\* volatility <= 0, timeToMaturityYears <= 0 or strikePrice <= 0.
Degenerate ==
    \/ (~IsNaN(self.sigma) /\ ~FPositive(self.sigma))
    \/ (~IsNaN(self.capt) /\ ~FPositive(self.capt))
    \/ self.strike <= 0

\* A Monte Carlo run has completed and nothing has been started since.
McDone == pc = "idle" /\ mc.status # "none"

\* The trials of the latest run whose geometric_path call has returned.
Returned == IF pc = "path" THEN 1..(Len(run.trials) - 1) ELSE 1..Len(run.trials)

\* ---------------------------------------------------------------- claims
\* C1: a Monte Carlo pricing call with an option kind outside {Call, Put}
\* fails with UnsupportedOptionKind, having generated no path and made no
\* random draw.
C1_InvalidKindNoSimulation ==
    (McDone /\ ~ValidKind) =>
        /\ mc.status = "raised"
        /\ mc.err = "UnsupportedOptionKind"
        /\ mc.draws = 0
        /\ mc.paths = 0

\* C2: a Black-Scholes pricing call with an option kind outside {Call, Put}
\* raises UnsupportedOptionKind before d1 and d2 are evaluated, and the price
\* is never a placeholder string.
C2_InvalidKindAnalytic ==
    (bs.status # "none" /\ ~ValidKind) =>
        /\ bs.status = "raised"
        /\ bs.err = "UnsupportedOptionKind"
        /\ ~bs.evaluated
        /\ bs.price # "str"

\* C3: with volatility <= 0, time to maturity <= 0 or strike <= 0 a pricing
\* call (of a Call or a Put) fails with DegenerateParameters; the Monte Carlo
\* pricer fails before any path is generated or any draw is made; no price
\* is produced.
C3_DegenerateRejected ==
    (Constructed /\ ValidKind /\ Degenerate) =>
        /\ mc.status # "none" =>
              (mc.status = "raised" /\ mc.err = "DegenerateParameters"
               /\ mc.draws = 0 /\ mc.paths = 0)
        /\ bs.status # "none" =>
              (bs.status = "raised" /\ bs.err = "DegenerateParameters")

\* C4: the path geometric_path returns for initial price s0 and t_steps
\* steps has t_steps + 1 elements, begins with s0, and each later element is
\* the one before it times the growth factor of one draw; the draws are
\* successive outputs of the generator.
C4_PathShape ==
    \A n \in Returned :
        LET tr == run.trials[n]
        IN  /\ Len(tr.path) = tr.steps + 1
            /\ tr.path[1] = tr.start
            /\ Len(tr.draws) = tr.steps
            /\ \A i \in 1..tr.steps :
                  tr.path[i + 1] =
                      FMul(tr.path[i],
                           growth_factor(self.rf, self.sigma, tr.t, randn(tr.draws[i])))
            /\ \A i \in 1..(tr.steps - 1) : tr.draws[i + 1] = rng_next(tr.draws[i])

C4_Witness ==
    /\ pc = "sim"
    /\ Len(run.trials) >= 1
    /\ LET tr == run.trials[Len(run.trials)]
       IN  /\ tr.steps >= 2
           /\ IsFinite(tr.path[3])
           /\ tr.path[2] # tr.path[1]
           /\ tr.path[3] # tr.path[2]
           /\ tr.draws[1] # tr.draws[2]

C7_ParametersUnchanged ==
    /\ [][Constructed => self' = self]_vars
    /\ [](\A a, b \in bs_results :
             a.status = b.status /\ a.err = b.err /\ a.out = b.out)

C7_Witness ==
    \E a, b \in bs_results :
        /\ ~a.mc_done
        /\ b.mc_done
        /\ a.status = "printed"
        /\ IsFinite(a.out)
        /\ FPositive(a.out)
        /\ mc.status = "printed"
        /\ mc.draws >= 2

\* C8: two Monte Carlo runs of the instance that begin in the same generator
\* state consume the same sequence of draws and end with the same outcome.
C8_Deterministic ==
    \A a, b \in runs :
        a.seed = b.seed =>
            /\ a.draws = b.draws
            /\ a.status = b.status
            /\ a.out = b.out

C8_Witness ==
    \E a \in runs :
        /\ a.repeat
        /\ a.status = "printed"
        /\ Len(a.draws) >= 2
        /\ IsFinite(a.out)
        /\ FPositive(a.out)

\* C9: construction from a price history of fewer than 2 observations fails
\* with InsufficientData; no volatility (NaN included) is returned and no
\* instance attributes are set from it.
C9_InsufficientData ==
    (pc # "new" /\ Len(input.df) < 2) =>
        /\ pc = "failed"
        /\ ctor_err = "InsufficientData"
        /\ self = NoObject

\* C10: a Monte Carlo run of a Call or a Put generates self.sims paths, each
\* from self.spot with step interval self.capt / self.steps and self.steps
\* draws, and keeps one terminal value, the path's last element, per trial:
\* sims * steps draws and sims terminal values in all.
C10_RunShape ==
    ValidKind =>
        /\ \A n \in 1..Len(run.trials) :
              /\ run.trials[n].start = self.spot
              /\ run.trials[n].t = FDiv(self.capt, F(self.steps))
              /\ run.trials[n].steps = self.steps
        /\ \A n \in Returned : Len(run.trials[n].draws) = self.steps
        /\ pc \in {"sim", "path"} =>
              /\ Len(final_prices) = Cardinality(Returned)
              /\ \A n \in Returned :
                    final_prices[n] = run.trials[n].path[self.steps + 1]
        /\ McDone =>
              /\ mc.paths = self.sims
              /\ Len(run.trials) = self.sims
              /\ mc.draws = self.sims * self.steps
              /\ Len(run.draws) = self.sims * self.steps
              /\ Len(final_prices) = self.sims
              /\ \A n \in 1..self.sims :
                    final_prices[n] = run.trials[n].path[self.steps + 1]

C10_Witness ==
    /\ McDone
    /\ mc.status = "printed"
    /\ self.sims >= 2
    /\ self.steps >= 2
    /\ IsFinite(final_prices[1])
    /\ final_prices[1] # self.spot
    /\ final_prices[2] # final_prices[1]

====
